---- MODULE Spec2Model ----
(***************************************************************************)
(* Google Tasks todo platform: the translation between remote task records *)
(* and local to-do items, the orderer, the due-date categorizer and the    *)
(* list entity that binds one remote task list to one local to-do list.    *)
(*                                                                         *)
(* Three specifications share the module:                                  *)
(*   Spec            the list entity with its callers, the coordinator's   *)
(*                   cached snapshot, the periodic poll and the three      *)
(*                   text sinks; every await of a handler is a point where *)
(*                   other callers and the poll may run;                   *)
(*   SpecCategorize  categorize_tasks applied to bounded task lists on     *)
(*                   every day of a week;                                  *)
(*   SpecConvert     _convert_api_item and _convert_todo_item applied to   *)
(*                   bounded records and items.                            *)
(*                                                                         *)
(* Representation.  Python's None is the string None for string-typed      *)
(* fields and the record NoDue for due fields.  A due string is a record   *)
(* Str(s): s = <<>> is the empty string, <<d>> the date-only ISO string of *)
(* day d, <<d, h>> the ISO timestamp of hour h of day d.  Days are         *)
(* integers and day 0 is a Monday.  Text written to a sink is a sequence   *)
(* of tokens in which "\n" is the newline.  A position is a sequence of    *)
(* digits compared lexicographically, as Python compares the strings.      *)
(***************************************************************************)
EXTENDS Integers, Sequences, FiniteSets, TLC

VARIABLES
    remote,      \* the remote service's task list, in the order list() returns it
    nextId,      \* the next id the remote service assigns
    data,        \* coordinator.data: NoData or the cached snapshot
    dataAfter,   \* callers whose remote call had finished when the fetch behind data began
    everFetched, \* a fetch has stored a snapshot
    pollFetch,   \* the periodic poll's list request in flight, or NoFetch
    pollsLeft,   \* periodic polls still to come
    sinks,       \* value of each input_text sink
    today,       \* date.today()
    pc,          \* per caller: 0 when idle, else the index in Program of the await it is at
    op,          \* per caller: the operation in progress or last finished
    fetch,       \* per caller: the forced refresh's list request in flight, or NoFetch
    result,      \* per caller: how the last operation ended
    log,         \* per caller: what the operation in progress has done so far
    opsLeft,     \* operations still to be started
    tasks,       \* SpecCategorize: the list handed to categorize_tasks
    categorized, \* SpecCategorize: its result
    record,      \* SpecConvert: a remote record
    item,        \* SpecConvert: a local item
    converted    \* SpecConvert: the last conversion's result

entityVars == <<remote, nextId, data, dataAfter, everFetched, pollFetch, pollsLeft,
                sinks, pc, op, fetch, result, log, opsLeft>>
categorizeVars == <<tasks, categorized>>
convertVars == <<record, item, converted>>
vars == <<entityVars, today, categorizeVars, convertVars>>

-----------------------------------------------------------------------------
(* Bounds *)

NumCallers == 2
MaxOps == 2
MaxPolls == 1
MaxTasks == 4
MaxLen == 3

(* Program constants *)

WeekLen == 7
DaysToWeekEnd == 6

-----------------------------------------------------------------------------
(* Values *)

None == "None"
NoDue == [t |-> "none"]
Str(s) == [t |-> "str", s |-> s]
Date(d) == [t |-> "date", day |-> d]
Absent == "<absent>"

NEEDS_ACTION == "needs_action"
COMPLETED == "completed"

TODO_STATUS_MAP == [s \in {"needsAction", "completed"} |->
                      IF s = "needsAction" THEN NEEDS_ACTION ELSE COMPLETED]

TODO_STATUS_MAP_INV == [v \in {TODO_STATUS_MAP[k] : k \in DOMAIN TODO_STATUS_MAP} |->
                          CHOOSE k \in DOMAIN TODO_STATUS_MAP : TODO_STATUS_MAP[k] = v]

\* dict.get(key, default) of a field that may be absent
Get(value, default) == IF value = Absent THEN default ELSE value

\* dt_util.start_of_local_day(due).isoformat(): the timestamp of local midnight
start_of_local_day(d) == Str(<<d, 0>>)

\* datetime.fromisoformat(s).date() and isoparse(s).date(): the date part
DatePart(due_str) == due_str.s[1]

\* a due string Python treats as true: not None and not empty
Truthy(due_str) == due_str.t = "str" /\ due_str.s # <<>>

_convert_todo_item(it) ==
    [title  |-> it.summary,
     status |-> IF it.status # None THEN TODO_STATUS_MAP_INV[it.status] ELSE NEEDS_ACTION,
     due    |-> IF it.due # NoDue THEN start_of_local_day(it.due.day) ELSE NoDue,
     notes  |-> it.description]

_convert_api_item(r) ==
    [summary     |-> r.title,
     uid         |-> r.id,
     status      |-> IF Get(r.status, "") \in DOMAIN TODO_STATUS_MAP
                     THEN TODO_STATUS_MAP[Get(r.status, "")]
                     ELSE NEEDS_ACTION,
     due         |-> IF r.due # NoDue THEN Date(DatePart(r.due)) ELSE NoDue,
     description |-> Get(r.notes, None)]

-----------------------------------------------------------------------------
(* Orderer *)

RECURSIVE LexLess(_, _)
\* p < q as Python compares two strings
LexLess(p, q) ==
    IF q = <<>> THEN FALSE
    ELSE IF p = <<>> THEN TRUE
    ELSE IF Head(p) # Head(q) THEN Head(p) < Head(q)
    ELSE LexLess(Tail(p), Tail(q))

RECURSIVE InsertByPosition(_, _)
\* t placed after every record whose position is not greater: the sort is stable
InsertByPosition(sorted, t) ==
    IF sorted = <<>> THEN <<t>>
    ELSE IF LexLess(t.position, Head(sorted).position)
         THEN <<t>> \o sorted
         ELSE <<Head(sorted)>> \o InsertByPosition(Tail(sorted), t)

RECURSIVE SortByPosition(_)
SortByPosition(ts) ==
    IF ts = <<>> THEN <<>>
    ELSE InsertByPosition(SortByPosition(SubSeq(ts, 1, Len(ts) - 1)), ts[Len(ts)])

IsTopLevel(t) == t.parent = None

_order_tasks_unfiltered(ts) == SortByPosition(ts)

_order_tasks(ts) == SortByPosition(SelectSeq(ts, IsTopLevel))

-----------------------------------------------------------------------------
(* Categorizer *)

BucketNames == {"Today", "This Week", "Upcoming"}

weekday(d) == d % WeekLen

EmptyBuckets == [b \in BucketNames |-> <<>>]

\* the body of the loop of categorize_tasks for one task
CategorizeStep(acc, task, current_date, week_start, week_end) ==
    IF ~Truthy(task.due) THEN acc
    ELSE LET due_date == DatePart(task.due) IN
         IF due_date = current_date
         THEN [acc EXCEPT !["Today"] = Append(@, task)]
         ELSE IF week_start <= due_date /\ due_date <= week_end
         THEN [acc EXCEPT !["This Week"] = Append(@, task)]
         ELSE IF due_date > week_end
         THEN [acc EXCEPT !["Upcoming"] = Append(@, task)]
         ELSE acc

RECURSIVE CategorizeLoop(_, _, _, _, _)
CategorizeLoop(acc, ts, current_date, week_start, week_end) ==
    IF ts = <<>> THEN acc
    ELSE CategorizeLoop(CategorizeStep(acc, Head(ts), current_date, week_start, week_end),
                        Tail(ts), current_date, week_start, week_end)

categorize_tasks_week_of_five(ts, current_date) ==
    LET week_start == current_date - weekday(current_date)
        week_end   == week_start + (DaysToWeekEnd - 1)
    IN CategorizeLoop(EmptyBuckets, ts, current_date, week_start, week_end)

categorize_tasks_week_of_eight(ts, current_date) ==
    LET week_start == current_date - weekday(current_date)
        week_end   == week_start + (DaysToWeekEnd + 1)
    IN CategorizeLoop(EmptyBuckets, ts, current_date, week_start, week_end)

categorize_tasks(ts, current_date) ==
    LET week_start == current_date - weekday(current_date)
        week_end   == week_start + DaysToWeekEnd
    IN CategorizeLoop(EmptyBuckets, ts, current_date, week_start, week_end)

-----------------------------------------------------------------------------
(* Text sinks *)

NoData == [t |-> "none"]
NoFetch == [t |-> "none"]
List(s) == [t |-> "list", s |-> s]

RECURSIVE JoinLines(_)
\* "\n".join(lines), each line a sequence of tokens
JoinLines(lines) ==
    IF lines = <<>> THEN <<>>
    ELSE IF Len(lines) = 1 THEN lines[1]
    ELSE lines[1] \o <<"\n">> \o JoinLines(Tail(lines))

\* f"- {task['title']}" for each task of the bucket
TitleLines(bucket) == [i \in 1..Len(bucket) |-> <<"- ", bucket[i].title>>]

_store_tasks_for_email(ts, current_date) ==
    [entity_id |-> "input_text.stored_task_data",
     value     |-> <<"This is the list of tasks due today:", "\n">>
                   \o JoinLines(TitleLines(categorize_tasks(ts, current_date)["Today"]))]

_store_weekly_tasks_for_email(ts, current_date) ==
    [entity_id |-> "input_text.stored_weekly_task_data",
     value     |-> <<"This is the list of tasks due this week:", "\n">>
                   \o JoinLines(TitleLines(categorize_tasks(ts, current_date)["This Week"]))]

_store_upcoming_tasks_for_email(ts, current_date) ==
    [entity_id |-> "input_text.stored_upcoming_task_data",
     value     |-> <<"This is the list of upcoming tasks in future weeks:", "\n">>
                   \o JoinLines(TitleLines(categorize_tasks(ts, current_date)["Upcoming"]))]

SinkStages == {"_store_tasks_for_email", "_store_weekly_tasks_for_email",
               "_store_upcoming_tasks_for_email"}

SinkIds == {"input_text.stored_task_data", "input_text.stored_weekly_task_data",
            "input_text.stored_upcoming_task_data"}

\* the service call a store helper makes
StoreCall(stage, ts, current_date) ==
    IF stage = "_store_tasks_for_email" THEN _store_tasks_for_email(ts, current_date)
    ELSE IF stage = "_store_weekly_tasks_for_email"
         THEN _store_weekly_tasks_for_email(ts, current_date)
         ELSE _store_upcoming_tasks_for_email(ts, current_date)

-----------------------------------------------------------------------------
(* The remote task service, as the client's contract describes it *)

RemoteCalls == {"insert", "patch", "delete", "move"}

IdOf(n) == ToString(n)

Ids(ts) == {ts[i].id : i \in DOMAIN ts}

\* position of the k-th sibling: a zero-padded decimal string
RankPosition(k) == <<k \div 10, k % 10>>

IndexOf(seq, x) == CHOOSE i \in DOMAIN seq : seq[i] = x

\* the records with their top-level ones renumbered in the order given by ids
Renumber(ts, ids) ==
    [i \in DOMAIN ts |->
        IF \E k \in DOMAIN ids : ids[k] = ts[i].id
        THEN [ts[i] EXCEPT !.parent = None, !.position = RankPosition(IndexOf(ids, ts[i].id))]
        ELSE ts[i]]

TopLevelIds(ts) ==
    LET top == SortByPosition(SelectSeq(ts, IsTopLevel))
    IN [i \in DOMAIN top |-> top[i].id]

Without(ids, x) == SelectSeq(ids, LAMBDA y : y # x)

InsertAfter(ids, previous, x) ==
    IF previous = None THEN <<x>> \o ids
    ELSE LET k == IndexOf(ids, previous)
         IN SubSeq(ids, 1, k) \o <<x>> \o SubSeq(ids, k + 1, Len(ids))

\* insert: a new top-level record at the head of the list, with a fresh id
RemoteInsert(ts, id, fields) ==
    Renumber(Append(ts, [id |-> id, title |-> fields.title, status |-> fields.status,
                         due |-> fields.due, notes |-> fields.notes,
                         parent |-> None, position |-> <<>>]),
             <<id>> \o TopLevelIds(ts))

RemotePatch(ts, uid, fields) ==
    [i \in DOMAIN ts |->
        IF ts[i].id = uid
        THEN [ts[i] EXCEPT !.title = fields.title, !.status = fields.status,
                           !.due = fields.due, !.notes = fields.notes]
        ELSE ts[i]]

RemoteDelete(ts, uids) ==
    SelectSeq(ts, LAMBDA t : \A k \in DOMAIN uids : uids[k] # t.id)

RemoteMove(ts, uid, previous) ==
    Renumber(ts, InsertAfter(Without(TopLevelIds(ts), uid), previous, uid))

\* what the remote call of an operation needs to exist
RemoteFound(ts, o) ==
    IF o.kind = "create" THEN TRUE
    ELSE IF o.kind = "update" THEN o.item.uid \in Ids(ts)
    ELSE IF o.kind = "delete" THEN \A k \in DOMAIN o.uids : o.uids[k] \in Ids(ts)
    ELSE /\ o.uid \in Ids(ts)
         /\ o.previous # o.uid
         /\ o.previous = None \/ \E k \in DOMAIN ts : ts[k].id = o.previous /\ IsTopLevel(ts[k])

-----------------------------------------------------------------------------
(* The list entity *)

Callers == 1..NumCallers

async_create_todo_item == <<"insert", "refresh">>

async_update_todo_item_refresh_first ==
    <<"refresh", "patch", "_store_tasks_for_email", "_store_weekly_tasks_for_email",
      "_store_upcoming_tasks_for_email">>

async_update_todo_item_upcoming_first ==
    <<"patch", "refresh", "_store_upcoming_tasks_for_email", "_store_tasks_for_email",
      "_store_weekly_tasks_for_email">>

async_update_todo_item ==
    <<"patch", "refresh", "_store_tasks_for_email", "_store_weekly_tasks_for_email",
      "_store_upcoming_tasks_for_email">>

async_delete_todo_items_publishing ==
    <<"delete", "refresh", "_store_tasks_for_email", "_store_weekly_tasks_for_email",
      "_store_upcoming_tasks_for_email">>

async_delete_todo_items == <<"delete", "refresh">>

async_move_todo_item == <<"move", "refresh">>

\* the awaits of each handler, in order
Program(kind) ==
    IF kind = "create" THEN async_create_todo_item
    ELSE IF kind = "update" THEN async_update_todo_item
    ELSE IF kind = "delete" THEN async_delete_todo_items
    ELSE async_move_todo_item

PropagateWrapped(raised) == [status |-> "err", error |-> "HomeAssistantError", fresh |-> FALSE]

\* no handler catches: what an awaited call raises is what the handler raises
Propagate(raised) == [status |-> "err", error |-> raised.error, fresh |-> FALSE]

\* the task argument of insert and patch
TaskArgument(o) == _convert_todo_item(o.item)

todo_items_of(d) ==
    IF d = NoData THEN NoData
    ELSE List([i \in DOMAIN _order_tasks(d.s) |-> _convert_api_item(_order_tasks(d.s)[i])])

todo_items == todo_items_of(data)

Stage(c) == Program(op[c].kind)[pc[c]]

\* callers whose operation in progress has had its remote call return
Finished == {c \in Callers : pc[c] # 0 /\ log[c].returned > 0}

NoRaise == [at |-> None, error |-> None]

\* calls, refreshes: remote calls and forced refreshes begun; returned, refreshed: those
\* that returned; writes: the sinks written, in order, each with whether the snapshot
\* it was computed from came from a fetch begun after this operation's remote call
NewLog == [calls |-> 0, returned |-> 0, refreshes |-> 0, refreshed |-> 0,
           refreshedFresh |-> FALSE, writes |-> <<>>, raised |-> NoRaise]

\* the handler reaches the await at index k: a remote call is sent there and then
Enter(lg, kind, k) ==
    IF Program(kind)[k] \in RemoteCalls THEN [lg EXCEPT !.calls = @ + 1] ELSE lg

InitialRemote ==
    << [id |-> IdOf(1), title |-> "A", status |-> "needsAction", due |-> Str(<<8, 0>>),
        notes |-> Absent, parent |-> None, position |-> <<0, 2>>],
       [id |-> IdOf(2), title |-> "B", status |-> "completed", due |-> Str(<<15, 0>>),
        notes |-> "note", parent |-> IdOf(1), position |-> <<0, 1>>],
       [id |-> IdOf(3), title |-> "C", status |-> Absent, due |-> Str(<<8>>),
        notes |-> Absent, parent |-> None, position |-> <<0, 1>>] >>

NewItem(summary, uid, status, due) ==
    [summary |-> summary, uid |-> uid, status |-> status, due |-> due, description |-> None]

Operations ==
    {[kind |-> "create", item |-> NewItem("N", None, None, Date(10))]}
    \cup {[kind |-> "update", item |-> it] :
            it \in {NewItem("A2", IdOf(1), COMPLETED, Date(8)),
                    NewItem("X", None, None, NoDue)}}
    \cup {[kind |-> "delete", uids |-> <<IdOf(3)>>]}
    \cup {[kind |-> "move", uid |-> IdOf(2), previous |-> IdOf(3)]}

IdleOp == [kind |-> "none"]
NoResult == [status |-> "none", error |-> None, fresh |-> FALSE]

InitEntity ==
    /\ remote = InitialRemote
    /\ nextId = Len(InitialRemote) + 1
    /\ data = NoData
    /\ dataAfter = {}
    /\ everFetched = FALSE
    /\ pollFetch = NoFetch
    /\ pollsLeft = MaxPolls
    /\ sinks = [e \in SinkIds |-> <<>>]
    /\ pc = [c \in Callers |-> 0]
    /\ op = [c \in Callers |-> IdleOp]
    /\ fetch = [c \in Callers |-> NoFetch]
    /\ result = [c \in Callers |-> NoResult]
    /\ log = [c \in Callers |-> NewLog]
    /\ opsLeft = MaxOps

InitIdle ==
    /\ tasks = <<>>
    /\ categorized = [done |-> FALSE]
    /\ record = [t |-> "none"]
    /\ item = [t |-> "none"]
    /\ converted = [by |-> "none"]

Init ==
    /\ InitEntity
    /\ today = 8
    /\ InitIdle

\* a caller invokes one of the four handlers, which runs to its first await
Start(c) ==
    /\ pc[c] = 0
    /\ opsLeft > 0
    /\ \E o \in Operations :
          /\ o.kind = "create" => nextId <= MaxTasks
          /\ op' = [op EXCEPT ![c] = o]
          /\ log' = [log EXCEPT ![c] = Enter(NewLog, o.kind, 1)]
    /\ opsLeft' = opsLeft - 1
    /\ pc' = [pc EXCEPT ![c] = 1]
    /\ result' = [result EXCEPT ![c] = NoResult]
    /\ dataAfter' = dataAfter \ {c}
    /\ pollFetch' = IF pollFetch = NoFetch THEN NoFetch
                    ELSE [pollFetch EXCEPT !.after = @ \ {c}]
    /\ fetch' = [d \in Callers |-> IF fetch[d] = NoFetch THEN NoFetch
                                   ELSE [fetch[d] EXCEPT !.after = @ \ {c}]]
    /\ UNCHANGED <<remote, nextId, data, everFetched, pollsLeft, sinks>>
    /\ UNCHANGED <<today, categorizeVars, convertVars>>

\* the awaited call at pc[c] has returned: on to the next await, or the handler returns
Advance(c, lg, newDataAfter) ==
    IF pc[c] = Len(Program(op[c].kind))
    THEN /\ pc' = [pc EXCEPT ![c] = 0]
         /\ log' = [log EXCEPT ![c] = lg]
         /\ result' = [result EXCEPT ![c] =
                         [status |-> "ok", error |-> None, fresh |-> c \in newDataAfter]]
    ELSE /\ pc' = [pc EXCEPT ![c] = pc[c] + 1]
         /\ log' = [log EXCEPT ![c] = Enter(lg, op[c].kind, pc[c] + 1)]
         /\ UNCHANGED result

\* the awaited call at pc[c] has raised
Raise(c, error) ==
    LET raised == [at |-> Stage(c), error |-> error] IN
    /\ log' = [log EXCEPT ![c].raised = raised]
    /\ pc' = [pc EXCEPT ![c] = 0]
    /\ result' = [result EXCEPT ![c] = Propagate(raised)]

\* api.insert / patch / delete / move returns
CallOk(c) ==
    /\ pc[c] # 0
    /\ Stage(c) \in RemoteCalls
    /\ RemoteFound(remote, op[c])
    /\ remote' = IF Stage(c) = "insert"
                 THEN RemoteInsert(remote, IdOf(nextId), TaskArgument(op[c]))
                 ELSE IF Stage(c) = "patch"
                 THEN RemotePatch(remote, op[c].item.uid, TaskArgument(op[c]))
                 ELSE IF Stage(c) = "delete"
                 THEN RemoteDelete(remote, op[c].uids)
                 ELSE RemoteMove(remote, op[c].uid, op[c].previous)
    /\ nextId' = IF Stage(c) = "insert" THEN nextId + 1 ELSE nextId
    /\ Advance(c, [log[c] EXCEPT !.returned = @ + 1], dataAfter)
    /\ UNCHANGED <<data, dataAfter, everFetched, pollFetch, pollsLeft, sinks, op, fetch,
                   opsLeft>>
    /\ UNCHANGED <<today, categorizeVars, convertVars>>

\* api.insert / patch / delete / move raises
CallFail(c) ==
    /\ pc[c] # 0
    /\ Stage(c) \in RemoteCalls
    /\ \E error \in {"transport", "not_found"} :
          /\ error = "not_found" => ~RemoteFound(remote, op[c])
          /\ Raise(c, error)
    /\ UNCHANGED <<remote, nextId, data, dataAfter, everFetched, pollFetch, pollsLeft,
                   sinks, op, fetch, opsLeft>>
    /\ UNCHANGED <<today, categorizeVars, convertVars>>

\* coordinator.async_refresh() sends its list request
RefreshBegin(c) ==
    /\ pc[c] # 0
    /\ Stage(c) = "refresh"
    /\ fetch[c] = NoFetch
    /\ fetch' = [fetch EXCEPT ![c] = [t |-> "list", s |-> remote, after |-> Finished]]
    /\ log' = [log EXCEPT ![c].refreshes = @ + 1]
    /\ UNCHANGED <<remote, nextId, data, dataAfter, everFetched, pollFetch, pollsLeft,
                   sinks, pc, op, result, opsLeft>>
    /\ UNCHANGED <<today, categorizeVars, convertVars>>

\* coordinator.async_refresh() stores the snapshot and returns
RefreshOk(c) ==
    /\ pc[c] # 0
    /\ Stage(c) = "refresh"
    /\ fetch[c] # NoFetch
    /\ data' = List(fetch[c].s)
    /\ dataAfter' = fetch[c].after
    /\ everFetched' = TRUE
    /\ fetch' = [fetch EXCEPT ![c] = NoFetch]
    /\ Advance(c, [log[c] EXCEPT !.refreshed = @ + 1,
                                 !.refreshedFresh = c \in fetch[c].after],
               fetch[c].after)
    /\ UNCHANGED <<remote, nextId, pollFetch, pollsLeft, sinks, op, opsLeft>>
    /\ UNCHANGED <<today, categorizeVars, convertVars>>

\* the list request of coordinator.async_refresh() fails
RefreshFail(c) ==
    /\ pc[c] # 0
    /\ Stage(c) = "refresh"
    /\ fetch[c] # NoFetch
    /\ fetch' = [fetch EXCEPT ![c] = NoFetch]
    /\ Raise(c, "transport")
    /\ UNCHANGED <<remote, nextId, data, dataAfter, everFetched, pollFetch, pollsLeft,
                   sinks, op, opsLeft>>
    /\ UNCHANGED <<today, categorizeVars, convertVars>>

\* a store helper categorizes coordinator.data and its set_value call returns
SinkOk(c) ==
    /\ pc[c] # 0
    /\ Stage(c) \in SinkStages
    /\ data # NoData
    /\ LET call == StoreCall(Stage(c), data.s, today) IN
          /\ sinks' = [sinks EXCEPT ![call.entity_id] = call.value]
          /\ Advance(c, [log[c] EXCEPT !.writes =
                            Append(@, [sink |-> call.entity_id, fresh |-> c \in dataAfter])],
                     dataAfter)
    /\ UNCHANGED <<remote, nextId, data, dataAfter, everFetched, pollFetch, pollsLeft,
                   op, fetch, opsLeft>>
    /\ UNCHANGED <<today, categorizeVars, convertVars>>

\* a store helper raises: iterating a missing snapshot, or its set_value call fails
SinkFail(c) ==
    /\ pc[c] # 0
    /\ Stage(c) \in SinkStages
    /\ \E error \in {"TypeError", "ServiceNotFound"} :
          /\ error = "TypeError" <=> data = NoData
          /\ Raise(c, error)
    /\ UNCHANGED <<remote, nextId, data, dataAfter, everFetched, pollFetch, pollsLeft,
                   sinks, op, fetch, opsLeft>>
    /\ UNCHANGED <<today, categorizeVars, convertVars>>

\* the coordinator's periodic poll sends its list request
PollBegin ==
    /\ pollsLeft > 0
    /\ pollFetch = NoFetch
    /\ pollFetch' = [t |-> "list", s |-> remote, after |-> Finished]
    /\ pollsLeft' = pollsLeft - 1
    /\ UNCHANGED <<remote, nextId, data, dataAfter, everFetched, sinks, pc, op, fetch,
                   result, log, opsLeft>>
    /\ UNCHANGED <<today, categorizeVars, convertVars>>

\* the periodic poll stores its snapshot
PollOk ==
    /\ pollFetch # NoFetch
    /\ data' = List(pollFetch.s)
    /\ dataAfter' = pollFetch.after
    /\ everFetched' = TRUE
    /\ pollFetch' = NoFetch
    /\ UNCHANGED <<remote, nextId, pollsLeft, sinks, pc, op, fetch, result, log, opsLeft>>
    /\ UNCHANGED <<today, categorizeVars, convertVars>>

\* the periodic poll's list request fails: the cached snapshot stays
PollFail ==
    /\ pollFetch # NoFetch
    /\ pollFetch' = NoFetch
    /\ UNCHANGED <<remote, nextId, data, dataAfter, everFetched, pollsLeft, sinks, pc, op,
                   fetch, result, log, opsLeft>>
    /\ UNCHANGED <<today, categorizeVars, convertVars>>

\* the host reads the todo_items property: a getter, nothing changes
ReadItems ==
    /\ todo_items.t \in {"none", "list"}
    /\ UNCHANGED vars

Next ==
    \/ \E c \in Callers : Start(c)
    \/ \E c \in Callers : CallOk(c)
    \/ \E c \in Callers : CallFail(c)
    \/ \E c \in Callers : RefreshBegin(c)
    \/ \E c \in Callers : RefreshOk(c)
    \/ \E c \in Callers : RefreshFail(c)
    \/ \E c \in Callers : SinkOk(c)
    \/ \E c \in Callers : SinkFail(c)
    \/ PollBegin
    \/ PollOk
    \/ PollFail
    \/ ReadItems

Spec == Init /\ [][Next]_vars

-----------------------------------------------------------------------------
(* categorize_tasks on its own *)

\* the second week of the model's calendar, Monday to Sunday
Todays == WeekLen..(2 * WeekLen - 1)

\* from the day before that week to two days after it
DueDays == (WeekLen - 1)..(2 * WeekLen + 1)

\* date-only strings, as the tests build them, on even days and timestamps, as the
\* service returns them, on odd days
DueString(d) == IF d % 2 = 0 THEN Str(<<d>>) ELSE Str(<<d, 0>>)

DueValues == {NoDue, Str(<<>>)} \cup {DueString(d) : d \in DueDays}

TaskLists ==
    UNION {{[i \in 1..n |-> [title |-> ToString(i), due |-> dues[i]]] :
               dues \in [1..n -> DueValues]} : n \in 0..MaxLen}

InitCategorize ==
    /\ InitEntity
    /\ today \in Todays
    /\ tasks \in TaskLists
    /\ categorized = [done |-> FALSE]
    /\ record = [t |-> "none"]
    /\ item = [t |-> "none"]
    /\ converted = [by |-> "none"]

Categorize ==
    /\ ~categorized.done
    /\ categorized' = [done |-> TRUE, buckets |-> categorize_tasks(tasks, today)]
    /\ UNCHANGED <<entityVars, today, tasks, convertVars>>

NextCategorize == Categorize

SpecCategorize == InitCategorize /\ [][NextCategorize]_vars

-----------------------------------------------------------------------------
(* the two converters on their own *)

Records ==
    {[id |-> IdOf(1), title |-> "A", status |-> st, due |-> du, notes |-> no,
      parent |-> None, position |-> <<0, 1>>] :
        st \in {"needsAction", "completed", "inProgress", Absent},
        du \in {NoDue, Str(<<8, 0>>), Str(<<9, 13>>)},
        no \in {Absent, "note"}}

LocalItems ==
    {[summary |-> "A", uid |-> ui, status |-> st, due |-> du, description |-> de] :
        ui \in {None, IdOf(1)},
        st \in {None, NEEDS_ACTION, COMPLETED},
        du \in {NoDue, Date(8)},
        de \in {None, "note"}}

InitConvert ==
    /\ InitEntity
    /\ today = 8
    /\ tasks = <<>>
    /\ categorized = [done |-> FALSE]
    /\ record \in Records
    /\ item \in LocalItems
    /\ converted = [by |-> "none"]

ConvertApiItem ==
    /\ converted' = [by |-> "_convert_api_item", value |-> _convert_api_item(record)]
    /\ UNCHANGED <<entityVars, today, categorizeVars, record, item>>

ConvertTodoItem ==
    /\ converted' = [by |-> "_convert_todo_item", value |-> _convert_todo_item(item)]
    /\ UNCHANGED <<entityVars, today, categorizeVars, record, item>>

RoundTrip ==
    /\ converted' = [by |-> "round_trip",
                     value |-> _convert_todo_item(_convert_api_item(record))]
    /\ UNCHANGED <<entityVars, today, categorizeVars, record, item>>

NextConvert == ConvertApiItem \/ ConvertTodoItem \/ RoundTrip

SpecConvert == InitConvert /\ [][NextConvert]_vars

-----------------------------------------------------------------------------
(* Properties *)

\* the due date of a task that has one
HasDueDate(t) == t.due # NoDue /\ t.due # Str(<<>>)
DueDay(t) == t.due.s[1]

\* the three bucket rules of the specification, for current date d
WeekStartOf(d) == d - (d % 7)
WeekEndOf(d) == WeekStartOf(d) + 6
RuleToday(t, d) == HasDueDate(t) /\ DueDay(t) = d
RuleThisWeek(t, d) ==
    HasDueDate(t) /\ WeekStartOf(d) <= DueDay(t) /\ DueDay(t) <= WeekEndOf(d) /\ DueDay(t) # d
RuleUpcoming(t, d) == HasDueDate(t) /\ DueDay(t) > WeekEndOf(d)

\* how many buckets hold task t
BucketsHolding(b, t) == Cardinality({n \in DOMAIN b : \E k \in DOMAIN b[n] : b[n][k] = t})

IsMixedList ==
    /\ Len(tasks) = 3
    /\ \A i \in 1..3 : HasDueDate(tasks[i])
    /\ DueDay(tasks[1]) = today
    /\ DueDay(tasks[2]) = today + 2
    /\ DueDay(tasks[3]) = WeekEndOf(today) + 1

C8_StatusTableSymmetric ==
    /\ (converted.by = "round_trip" /\ record.status \in {"needsAction", "completed"})
          => converted.value.status = record.status
    /\ (converted.by = "_convert_api_item"
          /\ record.status \notin {"needsAction", "completed"})
          => converted.value.status = NEEDS_ACTION
    /\ converted.by = "_convert_todo_item"
          => /\ converted.value.status \in {"needsAction", "completed"}
             /\ item.status = None => converted.value.status = "needsAction"

\* the records of the cached snapshot that have no parent
TopLevelIndexes == {i \in DOMAIN data.s : data.s[i].parent = None}

\* C2: todo_items is unknown while no snapshot was ever fetched; afterwards it holds
\* exactly one translated item per snapshot record without a parent, none for a
\* record with a parent, in ascending order of position.
C2_TodoItems ==
    /\ ~everFetched => todo_items = NoData
    /\ everFetched =>
          /\ data # NoData
          /\ todo_items # NoData
          /\ LET its == todo_items.s IN
                /\ Len(its) = Cardinality(TopLevelIndexes)
                /\ \E f \in [DOMAIN its -> TopLevelIndexes] :
                      /\ \A k, l \in DOMAIN its : k # l => f[k] # f[l]
                      /\ \A k \in DOMAIN its : its[k] = _convert_api_item(data.s[f[k]])
                      /\ \A k, l \in DOMAIN its :
                            k < l => ~LexLess(data.s[f[l]].position, data.s[f[k]].position)
                /\ \A i \in DOMAIN data.s \ TopLevelIndexes :
                      \A k \in DOMAIN its : its[k].uid # data.s[i].id

\* a snapshot with a sub-item whose top-level records are listed against snapshot order
C2_Witness ==
    /\ everFetched
    /\ \E i \in DOMAIN data.s : data.s[i].parent # None
    /\ Len(todo_items.s) = 2
    /\ todo_items.s[1].uid = IdOf(3)
    /\ todo_items.s[2].uid = IdOf(1)
    /\ data.s[1].id = IdOf(1)

\* C3 as claimed: update of an item without uid fails with MissingIdentifier and sends
\* no patch, forces no refresh and writes no sink.
C3_UpdateWithoutUidMakesNoCall ==
    \A c \in Callers :
        (op[c].kind = "update" /\ op[c].item.uid = None) =>
            /\ log[c].calls = 0
            /\ log[c].refreshes = 0
            /\ log[c].writes = <<>>
            /\ pc[c] = 0
            /\ result[c].status = "err"
            /\ result[c].error = "MissingIdentifier"

\* C4 as claimed: whenever a mutation returns successfully the cached snapshot comes
\* from a list fetch begun after that mutation's remote call finished.
C4_SnapshotAtReturnIsPostMutation ==
    \A c \in Callers : result[c].status = "ok" => result[c].fresh

\* C4 amended: the remote call is sent first, the forced refresh starts only after it
\* returned, and the operation returns only after the refresh stored its snapshot,
\* which comes from a fetch begun after the remote call finished; that snapshot is
\* still the cached one when create, delete or move returns (update returns three
\* awaited sink writes later, when a poll or another caller's refresh begun earlier
\* may have replaced it).
C4_RefreshAfterCall ==
    \A c \in Callers :
        /\ fetch[c] # NoFetch => (c \in fetch[c].after /\ log[c].returned = 1)
        /\ log[c].refreshes > 0 => (log[c].calls = 1 /\ log[c].returned = 1)
        /\ result[c].status = "ok" =>
              /\ log[c].calls = 1
              /\ log[c].returned = 1
              /\ log[c].refreshes = 1
              /\ log[c].refreshed = 1
              /\ log[c].refreshedFresh
              /\ op[c].kind # "update" => result[c].fresh

\* create, delete or move returned with a fresh snapshot while the other caller was in
\* the middle of an operation and a poll was in flight
C4_Witness ==
    \E c, d \in Callers :
        /\ c # d
        /\ op[c].kind \in {"create", "delete", "move"}
        /\ result[c].status = "ok"
        /\ result[c].fresh
        /\ pc[d] # 0
        /\ pollFetch # NoFetch

\* C5: only a store step of update changes a sink: create, delete and move, a read of
\* the items and a periodic poll leave all three sinks as they are.
C5_OnlyUpdatePublishes ==
    [][/\ sinks' # sinks =>
             \E c \in Callers : /\ pc[c] # 0
                                /\ op[c].kind = "update"
                                /\ Stage(c) \in SinkStages
                                /\ pc'[c] # pc[c]
       /\ \A c \in Callers :
             op'[c].kind \in {"create", "delete", "move"} => log'[c].writes = <<>>]_vars

\* create, delete or move returned after the poll ran, with the sinks an earlier update
\* published still in place
C5_Witness ==
    \E c \in Callers :
        /\ op[c].kind \in {"create", "delete", "move"}
        /\ result[c].status = "ok"
        /\ pollsLeft = 0
        /\ \A e \in SinkIds : sinks[e] # <<>>

\* C6 as claimed: a failing sink write does not make update fail.
C6_SinkFailureDoesNotFailUpdate ==
    \A c \in Callers :
        (log[c].raised.at \in SinkStages /\ log[c].raised.error = "ServiceNotFound")
            => result[c].status = "ok"

\* C7: when the remote call of an operation raises, the operation raises that same
\* error, the call was sent once, no refresh was begun and no sink written by the
\* operation, and the steps of the operation leave snapshot and sinks as they are.
C7_RemoteFailurePropagates ==
    [][\A c \in Callers :
          /\ log'[c].raised.at \in RemoteCalls =>
                /\ pc'[c] = 0
                /\ result'[c].status = "err"
                /\ result'[c].error = log'[c].raised.error
                /\ log'[c].calls = 1
                /\ log'[c].returned = 0
                /\ log'[c].refreshes = 0
                /\ log'[c].writes = <<>>
                /\ fetch'[c] = NoFetch
          /\ (log[c].raised.at = None /\ log'[c].raised.at \in RemoteCalls) =>
                (data' = data /\ sinks' = sinks)
          /\ (pc[c] = 0 /\ pc'[c] # 0) => (data' = data /\ sinks' = sinks)]_vars

\* a remote call failed after a snapshot was cached and the sinks were published
C7_Witness ==
    \E c \in Callers :
        /\ log[c].raised.at \in RemoteCalls
        /\ result[c].error = "not_found"
        /\ everFetched
        /\ \A e \in SinkIds : sinks[e] # <<>>

UpdateSinkOrder ==
    <<"input_text.stored_task_data", "input_text.stored_weekly_task_data",
      "input_text.stored_upcoming_task_data">>

SinkHeader(e) ==
    IF e = "input_text.stored_task_data" THEN "This is the list of tasks due today:"
    ELSE IF e = "input_text.stored_weekly_task_data"
    THEN "This is the list of tasks due this week:"
    ELSE "This is the list of upcoming tasks in future weeks:"

\* the records of snapshot s that belong in sink e on date d, in snapshot order
SinkBucket(e, s, d) ==
    IF e = "input_text.stored_task_data" THEN SelectSeq(s, LAMBDA t : RuleToday(t, d))
    ELSE IF e = "input_text.stored_weekly_task_data"
    THEN SelectSeq(s, LAMBDA t : RuleThisWeek(t, d))
    ELSE SelectSeq(s, LAMBDA t : RuleUpcoming(t, d))

\* text is the header line followed by one "- <title>" line per record of bucket
IsSummary(text, header, bucket) ==
    LET n == Len(bucket) IN
    /\ Len(text) = 2 + (IF n = 0 THEN 0 ELSE 3 * n - 1)
    /\ text[1] = header
    /\ text[2] = "\n"
    /\ \A i \in 1..n :
          /\ text[3 * i] = "- "
          /\ text[3 * i + 1] = bucket[i].title
          /\ i < n => text[3 * i + 2] = "\n"

SinksWritten(lg) == [k \in DOMAIN lg.writes |-> lg.writes[k].sink]

====
